---- MODULE Spec2Model ----
(***************************************************************************)
(* Model of tax_calculator.py: main() walks the discovered consumption     *)
(* tables and runs process_pair on each; process_pair parses the sale      *)
(* document, loads the table, fetches the CPI series, looks up the index   *)
(* values, does the arithmetic and writes the report.                      *)
(*                                                                         *)
(* Text is a sequence of one-character strings, a number is an exact       *)
(* fraction <<numerator, denominator>> (floating-point rounding is not     *)
(* modelled), a date is a record [y, m, d].  A regular-expression search   *)
(* is modelled by its outcome: the matched text, or <<>> when nothing      *)
(* matched.  An optional value is a sequence of length 0 or 1.             *)
(*                                                                         *)
(* pandas is taken as of version 2: Series.unique() of dates yields        *)
(* Timestamps, NaT.strftime raises ValueError.  The index series is        *)
(* monthly, so a response carries at most one well-formed observation per  *)
(* month.  The spreadsheet writer is taken to write the file whole.        *)
(***************************************************************************)
EXTENDS Integers, Sequences, FiniteSets, TLC

\* ---------------------------------------------------------------- bounds
MaxTables == 2
MaxRows == 2
MaxObs == 2

\* ------------------------------------------------------------- fractions
RECURSIVE Gcd(_, _)
Gcd(a, b) == IF b = 0 THEN a ELSE Gcd(b, a % b)

Abs(n) == IF n < 0 THEN -n ELSE n

Norm(n, d) ==
  LET g == Gcd(Abs(n), Abs(d))
      s == IF d < 0 THEN -1 ELSE 1
  IN  <<(s * n) \div g, (s * d) \div g>>

RAdd(a, b) == Norm(a[1] * b[2] + b[1] * a[2], a[2] * b[2])
RSub(a, b) == Norm(a[1] * b[2] - b[1] * a[2], a[2] * b[2])
RMul(a, b) == Norm(a[1] * b[1], a[2] * b[2])
RDiv(a, b) == Norm(a[1] * b[2], a[2] * b[1])
RZero == <<0, 1>>

RECURSIVE RSum(_)
RSum(s) == IF s = <<>> THEN RZero ELSE RAdd(s[1], RSum(Tail(s)))

\* TAX_RATE = 0.25
TAX_RATE == <<1, 4>>

\* ------------------------------------------------------------- text
Digits == {"0", "1", "2", "3", "4", "5", "6", "7", "8", "9"}

DigitVal(c) ==
  CASE c = "0" -> 0 [] c = "1" -> 1 [] c = "2" -> 2 [] c = "3" -> 3
    [] c = "4" -> 4 [] c = "5" -> 5 [] c = "6" -> 6 [] c = "7" -> 7
    [] c = "8" -> 8 [] c = "9" -> 9

AllDigits(s) == \A k \in 1..Len(s) : s[k] \in Digits

RECURSIVE IntOf(_)
IntOf(s) == IF s = <<>> THEN 0
            ELSE 10 * IntOf(SubSeq(s, 1, Len(s) - 1)) + DigitVal(s[Len(s)])

RECURSIVE Pow10(_)
Pow10(n) == IF n = 0 THEN 1 ELSE 10 * Pow10(n - 1)

Positions(s, c) == {k \in 1..Len(s) : s[k] = c}

\* str.replace(c, "")
RECURSIVE Remove(_, _)
Remove(s, c) ==
  IF s = <<>> THEN <<>>
  ELSE IF s[1] = c THEN Remove(Tail(s), c)
  ELSE <<s[1]>> \o Remove(Tail(s), c)

\* str.replace(c, r) for one-character c and r
Replace(s, c, r) == [k \in 1..Len(s) |-> IF s[k] = c THEN r ELSE s[k]]

\* float(s) for unsigned decimal text: <<value>>, or <<>> where float raises
\* ValueError (no digit at all, a second dot, any other character)
Float(s) ==
  LET dots == Positions(s, ".")
      p    == IF dots = {} THEN Len(s) + 1 ELSE CHOOSE k \in dots : TRUE
      ip   == SubSeq(s, 1, p - 1)
      fp   == SubSeq(s, p + 1, Len(s))
  IN  IF /\ Cardinality(dots) <= 1
         /\ AllDigits(ip) /\ AllDigits(fp)
         /\ Len(ip) + Len(fp) >= 1
      THEN <<Norm(IntOf(ip) * Pow10(Len(fp)) + IntOf(fp), Pow10(Len(fp)))>>
      ELSE <<>>

\* ------------------------------------------------------------- dates
Date(y, m, d) == [y |-> y, m |-> m, d |-> d]

DateLess(a, b) ==
  \/ a.y < b.y
  \/ a.y = b.y /\ a.m < b.m
  \/ a.y = b.y /\ a.m = b.m /\ a.d < b.d

IsLeap(y) == (y % 4 = 0 /\ y % 100 # 0) \/ y % 400 = 0

DaysIn(y, m) ==
  IF m = 2 THEN (IF IsLeap(y) THEN 29 ELSE 28)
  ELSE IF m \in {4, 6, 9, 11} THEN 30 ELSE 31

\* .dt.to_period("M").dt.to_timestamp() and .replace(day=1)
FirstOfMonth(dt) == Date(dt.y, dt.m, 1)

\* strftime("%m-%Y")
MonthYear(dt) == <<dt.m, dt.y>>

\* ------------------------------------------------- exceptions and options
None == <<>>
Some(v) == <<v>>
NoError == [type |-> "none"]

\* ------------------------------------------------------- parse_sale_pdf
MonthAbbr == <<"Jan", "Feb", "Mar", "Apr", "May", "Jun",
               "Jul", "Aug", "Sep", "Oct", "Nov", "Dec">>

\* datetime.strptime(g, "%d %b %Y") on the matched text g = <<day, month
\* word, year>>: <<date>>, or <<>> where strptime raises ValueError
Strptime(g) ==
  LET months == {k \in 1..12 : MonthAbbr[k] = g[2]}
      m == CHOOSE k \in months : TRUE
      d == IntOf(g[1])
      y == IntOf(g[3])
  IN  IF /\ AllDigits(g[1]) /\ Len(g[1]) \in 1..2
         /\ AllDigits(g[3]) /\ Len(g[3]) = 4
         /\ months # {}
         /\ d >= 1
         /\ d <= DaysIn(y, m)
      THEN Some(Date(y, m, d))
      ELSE None

\* re.search(anchored pattern), then the fallback pattern when it found nothing
Fallback(anchored, any) == IF anchored # <<>> THEN anchored ELSE any

\* The body of parse_sale_pdf on the first page's text, given as the outcome
\* of each search: text.price, text.settle, text.fx, text.fxAny, text.fees,
\* text.feesAny.  The statements run in order, so the first conversion that
\* raises ends the call.
ParseSalePdf(text) ==
  LET sale_price      == IF text.price # <<>> THEN Float(Remove(text.price, ","))
                         ELSE None
      settlement_date == IF text.settle # <<>> THEN Strptime(text.settle)
                         ELSE None
      mfx             == Fallback(text.fx, text.fxAny)
      ex_rate         == IF mfx # <<>> THEN Float(mfx) ELSE None
      mfees           == Fallback(text.fees, text.feesAny)
      fees_euro       == IF mfees # <<>> THEN Float(mfees) ELSE None
  IN  IF text.price # <<>> /\ sale_price = None
        THEN [type |-> "ValueError", line |-> 28, text |-> text.price]
      ELSE IF text.settle # <<>> /\ settlement_date = None
        THEN [type |-> "ValueError", line |-> 32, text |-> text.settle]
      ELSE IF mfx # <<>> /\ ex_rate = None
        THEN [type |-> "ValueError", line |-> 39, text |-> mfx]
      ELSE IF mfees # <<>> /\ fees_euro = None
        THEN [type |-> "ValueError", line |-> 46, text |-> mfees]
      ELSE IF \/ sale_price = None \/ settlement_date = None
              \/ ex_rate = None \/ fees_euro = None
        THEN [type |-> "RuntimeError", line |-> 49,
              msg |-> "Failed to parse all sale params",
              sale_price |-> sale_price, settle |-> settlement_date,
              FX |-> ex_rate, fees |-> fees_euro]
      ELSE [type |-> "return",
            sale_price |-> sale_price[1], settlement_date |-> settlement_date[1],
            ex_rate |-> ex_rate[1], fees_euro |-> fees_euro[1]]

\* ----------------------------------------------------- fetch_cpi_series
\* pd.to_datetime(s, format="%Y-%m", errors="coerce"): <<first of month>>, or
\* <<>> for NaT
ToDatetime(s) ==
  LET y == SubSeq(s, 1, 4)
      m == SubSeq(s, 6, Len(s))
  IN  IF /\ Len(s) \in 6..7
         /\ AllDigits(y)
         /\ s[5] = "-"
         /\ AllDigits(m)
         /\ IntOf(m) \in 1..12
      THEN Some(Date(IntOf(y), IntOf(m), 1))
      ELSE None

\* obs.attrib.get(first) or obs.attrib.get(second); an absent attribute and an
\* empty one are both <<>>
AttrOr(first, second) == IF first # <<>> THEN first ELSE second

ObsPeriod(obs) == AttrOr(obs.TIME_PERIOD, obs.TIME)
ObsValue(obs) == AttrOr(obs.OBS_VALUE, obs.OBS)

\* tp if "-" in tp else tp.replace("M", "-")
PeriodText(tp) == IF Positions(tp, "-") # {} THEN tp ELSE Replace(tp, "M", "-")

\* the loop's two `continue` tests: the node reaches dates.append
ObsKept(obs) ==
  /\ ObsPeriod(obs) # <<>>
  /\ ObsValue(obs) # <<>>
  /\ ToDatetime(PeriodText(ObsPeriod(obs))) # None

\* pd.Series(...).sort_index(): insertion of one entry into a series sorted by date
RECURSIVE InsertByDate(_, _)
InsertByDate(e, s) ==
  IF s = <<>> THEN <<e>>
  ELSE IF DateLess(e.date, s[1].date) THEN <<e>> \o s
  ELSE <<s[1]>> \o InsertByDate(e, Tail(s))

RECURSIVE SortIndex(_)
SortIndex(s) ==
  IF s = <<>> THEN <<>>
  ELSE InsertByDate(s[Len(s)], SortIndex(SubSeq(s, 1, Len(s) - 1)))

\* for obs in obs_nodes, from node k on, with the lists built so far: a node
\* failing either test is passed over; float(ov) raises after dates.append(ts)
RECURSIVE ObsLoop(_, _, _, _)
ObsLoop(obs_nodes, k, dates, values) ==
  IF k > Len(obs_nodes)
    THEN [type |-> "end", dates |-> dates, values |-> values]
  ELSE LET obs == obs_nodes[k]
       IN  IF ~ObsKept(obs)
             THEN ObsLoop(obs_nodes, k + 1, dates, values)
           ELSE LET ts == ToDatetime(PeriodText(ObsPeriod(obs)))[1]
                    v  == Float(ObsValue(obs))
                IN  IF v = None
                      THEN [type |-> "ValueError", dates |-> Append(dates, ts),
                            values |-> values]
                    ELSE ObsLoop(obs_nodes, k + 1, Append(dates, ts),
                                 Append(values, v[1]))

\* the loop, the test for an empty result, and the sorted series
ParseObs(obs_nodes) ==
  LET r == ObsLoop(obs_nodes, 1, <<>>, <<>>)
  IN  IF r.type = "ValueError"
        THEN [type |-> "ValueError", line |-> 91,
              dates |-> r.dates, values |-> r.values]
      ELSE IF r.dates = <<>>
        THEN [type |-> "RuntimeError", line |-> 94,
              msg |-> "No CPI observations found in the XML response",
              dates |-> r.dates, values |-> r.values]
      ELSE [type |-> "return",
            series |-> SortIndex([k \in 1..Len(r.dates) |->
                                    [date |-> r.dates[k], value |-> r.values[k]]])]

\* a lookup that pads a missing month with the latest value of the series
CpiGetPad(cpi, key) ==
  LET hits == {k \in 1..Len(cpi) : cpi[k].date = key}
  IN  IF hits # {} THEN Some(cpi[CHOOSE k \in hits : TRUE].value)
      ELSE IF cpi = <<>> THEN None
      ELSE Some(cpi[Len(cpi)].value)

\* cpi.get(key) and the value .map(cpi) gives one key: <<value>>, or <<>> (NaN)
CpiGet(cpi, key) ==
  LET hits == {k \in 1..Len(cpi) : cpi[k].date = key}
  IN  IF hits = {} THEN None ELSE Some(cpi[CHOOSE k \in hits : TRUE].value)

\* the first row's date instead of the earliest
MinAcquisitionFirst(df) ==
  IF df = <<>> THEN None ELSE Some(df[1].acquisition_date)

\* df["Acquisition date"].min(): <<date>>, or <<>> (NaT) for a table without rows
MinAcquisition(df) ==
  IF df = <<>> THEN None
  ELSE Some(df[CHOOSE k \in 1..Len(df) :
                  \A j \in 1..Len(df) : ~DateLess(df[j].acquisition_date,
                                                  df[k].acquisition_date)].acquisition_date)

\* missing_acq.unique(): the distinct dates, in order of first appearance
RECURSIVE Unique(_)
Unique(s) ==
  IF s = <<>> THEN <<>>
  ELSE LET r == Unique(SubSeq(s, 1, Len(s) - 1))
       IN  IF \E k \in 1..Len(r) : r[k] = s[Len(s)] THEN r
           ELSE Append(r, s[Len(s)])

\* ------------------------------------------------------------- inputs
\* file names consumption_<stem>.csv that glob("consumption_*.csv") discovers
Stems == { <<"8", ".", "7", ".", "2", "0", "2", "5">>,
           <<"8", ".", "7", ".", "2", "5">>,
           <<"o", "l", "d">> }

\* first-page texts, as what each search of parse_sale_pdf finds in them
PriceTexts == { <<>>,
                <<"6", ".", "0", "0">>,
                <<"1", ".", "2", "3", "4", ".", "5", "6">> }
SettleTexts == { <<>>,
                 << <<"1", "0">>, "Jul", <<"2", "0", "2", "5">> >>,
                 << <<"1", "0">>, "July", <<"2", "0", "2", "5">> >> }
FxText == <<"4", ".", "0", "0", "0", "0", "0">>
FeesText == <<"2", ".", "0", "0">>
\* <<anchored match, match anywhere on the page>>
FxFinds == { <<<<>>, <<>>>>, <<<<>>, FxText>>, <<FxText, FxText>> }
FeesFinds == { <<<<>>, <<>>>>, <<<<>>, FeesText>>, <<FeesText, FeesText>> }

Texts ==
  { [price |-> p, settle |-> d, fx |-> x[1], fxAny |-> x[2],
     fees |-> f[1], feesAny |-> f[2]] :
      p \in PriceTexts, d \in SettleTexts, x \in FxFinds, f \in FeesFinds }

\* rows of a consumption table as pd.read_csv delivers them
RowKinds ==
  { [acquisition_date |-> Date(2023, 1, 15), Consumption |-> <<10, 1>>,
     Purchase_price |-> <<5, 1>>],
    [acquisition_date |-> Date(2023, 2, 3), Consumption |-> <<3, 1>>,
     Purchase_price |-> <<4, 1>>] }

Tables == UNION { [1..n -> RowKinds] : n \in 0..MaxRows }

\* Obs nodes of a response
Obs(tp, t, ov, o) == [TIME_PERIOD |-> tp, TIME |-> t, OBS_VALUE |-> ov, OBS |-> o]

ObsKinds ==
  { Obs(<<"2", "0", "2", "3", "-", "0", "1">>, <<>>, <<"1", "0", "0">>, <<>>),
    Obs(<<"2", "0", "2", "3", "M", "0", "2">>, <<>>, <<"1", "1", "0">>, <<>>),
    Obs(<<>>, <<"2", "0", "2", "5", "-", "0", "7">>, <<>>, <<"1", "2", "0">>),
    Obs(<<"2", "0", "2", "5", "-", "1", "3">>, <<>>, <<"1", "2", "0">>, <<>>),
    Obs(<<"2", "0", "2", "3", "-", "0", "1">>, <<>>, <<>>, <<>>),
    Obs(<<"2", "0", "2", "5", "-", "0", "7">>, <<>>, <<"-">>, <<>>) }

\* a node whose period and value both convert
WellFormed(obs) == ObsKept(obs) /\ Float(ObsValue(obs)) # None

\* the series is monthly: no two well-formed observations for one month
OnePerMonth(nodes) ==
  \A j, k \in 1..Len(nodes) :
     (/\ j # k /\ WellFormed(nodes[j]) /\ WellFormed(nodes[k]))
       => ToDatetime(PeriodText(ObsPeriod(nodes[j])))
            # ToDatetime(PeriodText(ObsPeriod(nodes[k])))

ObsLists ==
  { nodes \in UNION { [1..n -> ObsKinds] : n \in 0..MaxObs } : OnePerMonth(nodes) }

\* requests.get / raise_for_status / ET.fromstring raise, or the nodes found
Responses ==
  { [status |-> st, obs |-> <<>>] :
      st \in {"ConnectionError", "HTTPError", "ParseError"} }
  \cup { [status |-> "ok", obs |-> nodes] : nodes \in ObsLists }

\* ------------------------------------------------------------- state
VARIABLES
  i,         \* main: position in the list of discovered tables
  csv_file,  \* main: the stem of the table name handed to process_pair
  sale_pdf,  \* process_pair: whether sale_<key>.pdf exists
  pc,        \* where the run is: "main", a stage of process_pair, "exit", "raised"
  status,    \* per table: what process_pair printed or how it ended
  out,       \* per table: the written <name>_with_calc.xlsx, <<>> if none
  requests,  \* per table: the GET requests issued to the index API
  stages,    \* stages of process_pair started for the current table, in order
  err,       \* the uncaught exception that ended the run
  sale,      \* process_pair: the tuple parse_sale_pdf returned
  df,        \* process_pair: the data frame
  cpi,       \* process_pair: the fetched series
  cpi_set,   \* process_pair: the settlement month's index value
  summary,   \* process_pair: the totals
  text,      \* parse_sale_pdf: the page text, while its frame is live
  xml        \* fetch_cpi_series: the lists dates and values, while its frame is live

vars == <<i, csv_file, sale_pdf, pc, status, out, requests, stages, err, sale, df, cpi, cpi_set,
          summary, text, xml>>

locals == <<sale, df, cpi, cpi_set, summary, text, xml>>

TableIds == 1..MaxTables

\* re.search(r'consumption_(\d+\.\d+\.\d{4})\.csv$', csv_path) on
\* consumption_<stem>.csv
DateKey(stem) ==
  LET dots == Positions(stem, ".")
      p == CHOOSE k \in dots : \A j \in dots : k <= j
      q == CHOOSE k \in dots : \A j \in dots : j <= k
      a == SubSeq(stem, 1, p - 1)
      b == SubSeq(stem, p + 1, q - 1)
      c == SubSeq(stem, q + 1, Len(stem))
  IN  /\ Cardinality(dots) = 2
      /\ a # <<>> /\ AllDigits(a)
      /\ b # <<>> /\ AllDigits(b)
      /\ Len(c) = 4 /\ AllDigits(c)

Init ==
  /\ i = 1
  /\ csv_file = <<>>
  /\ sale_pdf = FALSE
  /\ pc = "main"
  /\ status = [t \in TableIds |-> "pending"]
  /\ out = [t \in TableIds |-> None]
  /\ requests = [t \in TableIds |-> <<>>]
  /\ stages = <<>>
  /\ err = NoError
  /\ sale = None
  /\ df = <<>>
  /\ cpi = <<>>
  /\ cpi_set = None
  /\ summary = None
  /\ text = None
  /\ xml = None

\* an exception nothing catches: it leaves process_pair and main
Raise(e) ==
  /\ pc' = "raised"
  /\ err' = e
  /\ status' = [status EXCEPT ![i] = "error"]
  /\ i' = i

\* process_pair without the os.path.exists test
ProcessPairNoPdfCheck ==
  /\ pc = "main"
  /\ i \in TableIds
  /\ \E stem \in Stems, pdf_exists \in BOOLEAN :
       /\ csv_file' = stem
       /\ sale_pdf' = pdf_exists
       /\ IF ~DateKey(stem)
            THEN /\ status' = [status EXCEPT ![i] = "Skipping unrecognized file"]
                 /\ i' = i + 1
                 /\ pc' = "main"
                 /\ stages' = <<>>
          ELSE /\ status' = [status EXCEPT ![i] = "processing"]
               /\ i' = i
               /\ pc' = "parse"
               /\ stages' = <<>>
  /\ UNCHANGED <<out, requests, err, locals>>

\* main's loop calls process_pair(csv_file); the call returns at once when the
\* name does not match or sale_<key>.pdf does not exist
ProcessPair ==
  /\ pc = "main"
  /\ i \in TableIds
  /\ \E stem \in Stems, pdf_exists \in BOOLEAN :
       /\ csv_file' = stem
       /\ sale_pdf' = pdf_exists
       /\ IF ~DateKey(stem)
            THEN /\ status' = [status EXCEPT ![i] = "Skipping unrecognized file"]
                 /\ i' = i + 1
                 /\ pc' = "main"
                 /\ stages' = <<>>
          ELSE IF ~pdf_exists
            THEN /\ status' = [status EXCEPT ![i] = "Warning: no sale pdf, skipping"]
                 /\ i' = i + 1
                 /\ pc' = "main"
                 /\ stages' = <<>>
          ELSE /\ status' = [status EXCEPT ![i] = "processing"]
               /\ i' = i
               /\ pc' = "parse"
               /\ stages' = <<>>
  /\ UNCHANGED <<out, requests, err, locals>>

\* the for loop is exhausted
MainReturn ==
  /\ pc = "main"
  /\ i \notin TableIds
  /\ pc' = "exit"
  /\ UNCHANGED <<i, csv_file, sale_pdf, status, out, requests, stages, err, locals>>

\* sale_price, settlement_date, ex_rate, fees_euro = parse_sale_pdf(sale_pdf)
ParseStage ==
  /\ UNCHANGED <<csv_file, sale_pdf>>
  /\ pc = "parse"
  /\ stages' = Append(stages, "parse")
  /\ \E page \in Texts :
       LET r == ParseSalePdf(page)
       IN  IF r.type = "return"
             THEN /\ sale' = Some([sale_price |-> r.sale_price,
                                   settlement_date |-> r.settlement_date,
                                   ex_rate |-> r.ex_rate,
                                   fees_euro |-> r.fees_euro])
                  /\ text' = None
                  /\ pc' = "load"
                  /\ UNCHANGED <<i, status, err>>
             ELSE /\ Raise(r)
                  /\ text' = Some(page)
                  /\ UNCHANGED sale
  /\ UNCHANGED <<out, requests, df, cpi, cpi_set, summary, xml>>

\* df = pd.read_csv(...)
LoadStage ==
  /\ UNCHANGED <<csv_file, sale_pdf>>
  /\ pc = "load"
  /\ stages' = Append(stages, "load")
  /\ \/ \E rows \in Tables :
          /\ df' = rows
          /\ pc' = "fetch"
          /\ UNCHANGED <<i, status, err>>
     \/ /\ Raise([type |-> "ValueError", line |-> 117])
        /\ UNCHANGED df
  /\ UNCHANGED <<out, requests, sale, cpi, cpi_set, summary, text, xml>>

\* what fetch_cpi_series does once the request is sent: requests.get,
\* raise_for_status or ET.fromstring raises, or the Obs nodes are read
FetchCpiSeries(resp) ==
  IF resp.status = "ConnectionError" THEN [type |-> "ConnectionError", line |-> 72]
  ELSE IF resp.status = "HTTPError" THEN [type |-> "HTTPError", line |-> 73]
  ELSE IF resp.status = "ParseError" THEN [type |-> "ParseError", line |-> 74]
  ELSE ParseObs(resp.obs)

\* the outcomes of fetch_cpi_series over all the responses
FetchResults == { FetchCpiSeries(resp) : resp \in Responses }

\* start_date = df["Acquisition date"].min(); cpi = fetch_cpi_series(start_date,
\* settlement_date).  NaT.strftime raises before any request is made;
\* otherwise one GET is issued and its outcome decides the rest.
FetchStage ==
  /\ UNCHANGED <<csv_file, sale_pdf>>
  /\ pc = "fetch"
  /\ stages' = Append(stages, "fetch")
  /\ LET start_date == MinAcquisition(df)
     IN  IF start_date = None
           THEN /\ Raise([type |-> "ValueError", line |-> 65])
                /\ UNCHANGED <<requests, cpi, xml>>
         ELSE
           /\ requests' =
                [requests EXCEPT ![i] =
                   Append(@, [startPeriod |-> MonthYear(start_date[1]),
                              endPeriod |-> MonthYear(sale[1].settlement_date)])]
           /\ \E r \in FetchResults :
                IF r.type = "return"
                  THEN /\ cpi' = r.series
                       /\ xml' = None
                       /\ pc' = "map"
                       /\ UNCHANGED <<i, status, err>>
                ELSE IF r.line = 91 \/ r.line = 94
                  THEN /\ Raise([type |-> r.type, line |-> r.line])
                       /\ xml' = Some([dates |-> r.dates, values |-> r.values])
                       /\ UNCHANGED cpi
                ELSE /\ Raise(r)
                     /\ UNCHANGED <<cpi, xml>>
  /\ UNCHANGED <<out, sale, df, cpi_set, summary, text>>

\* an error naming the month looked up instead of the settlement date
SettlementErrorKey(settlement_date) ==
  [type |-> "RuntimeError", line |-> 149,
   msg |-> "Missing CPI value for settlement date",
   date |-> FirstOfMonth(settlement_date)]

\* the error of check (2)
SettlementError(settlement_date) ==
  [type |-> "RuntimeError", line |-> 149,
   msg |-> "Missing CPI value for settlement date",
   date |-> settlement_date]

\* the error of check (1)
AcquisitionError(dates) ==
  [type |-> "RuntimeError", line |-> 141,
   msg |-> "Missing CPI value for acquisition date(s)",
   dates |-> dates]

\* df["CPI_acq"] = ...map(cpi), then check (1): every acquisition month has a value
WithCpiAcq(row, series) ==
  [acquisition_date |-> row.acquisition_date,
   Consumption      |-> row.Consumption,
   Purchase_price   |-> row.Purchase_price,
   CPI_acq          |-> CpiGet(series, FirstOfMonth(row.acquisition_date))]

IsNa(row) == row.CPI_acq = None

\* first-failure reporting: only the first missing date
MissingAcqFirst(frame) ==
  LET missing_acq == SelectSeq(frame, IsNa)
  IN  IF missing_acq = <<>> THEN <<>> ELSE <<missing_acq[1].acquisition_date>>

MissingAcq(frame) ==
  LET missing_acq == SelectSeq(frame, IsNa)
  IN  Unique([k \in 1..Len(missing_acq) |-> missing_acq[k].acquisition_date])

MapStage ==
  /\ UNCHANGED <<csv_file, sale_pdf>>
  /\ pc = "map"
  /\ stages' = Append(stages, "lookup")
  /\ df' = [k \in 1..Len(df) |-> WithCpiAcq(df[k], cpi)]
  /\ IF MissingAcq(df') # <<>>
       THEN Raise(AcquisitionError(MissingAcq(df')))
       ELSE /\ pc' = "settle"
            /\ UNCHANGED <<i, status, err>>
  /\ UNCHANGED <<out, requests, sale, cpi, cpi_set, summary, text, xml>>

\* cpi_set = cpi.get(settlement_date.replace(day=1)), then check (2)
SettleStage ==
  /\ UNCHANGED <<csv_file, sale_pdf>>
  /\ pc = "settle"
  /\ stages' = stages
  /\ cpi_set' = CpiGet(cpi, FirstOfMonth(sale[1].settlement_date))
  /\ IF cpi_set' = None
       THEN Raise(SettlementError(sale[1].settlement_date))
       ELSE /\ pc' = "math"
            /\ UNCHANGED <<i, status, err>>
  /\ UNCHANGED <<out, requests, sale, df, cpi, summary, text, xml>>

\* the rate applied to the gross proceeds instead of the real gain
DeriveTaxOnGross(row, set, sale_price, ex_rate) ==
  LET CPI_MULTIPLIER   == RDiv(set, row.CPI_acq[1])
      gross_sale_euro  == RMul(row.Consumption, sale_price)
      cost_euro        == RMul(RMul(row.Consumption, row.Purchase_price), CPI_MULTIPLIER)
      real_gain_shekel == RMul(RSub(gross_sale_euro, cost_euro), ex_rate)
  IN  [acquisition_date |-> row.acquisition_date,
       Consumption      |-> row.Consumption,
       Purchase_price   |-> row.Purchase_price,
       CPI_acq          |-> row.CPI_acq,
       CPI_set          |-> set,
       CPI_MULTIPLIER   |-> CPI_MULTIPLIER,
       gross_sale_euro  |-> gross_sale_euro,
       cost_euro        |-> cost_euro,
       real_gain_shekel |-> real_gain_shekel,
       tax_to_pay       |-> RMul(RMul(gross_sale_euro, ex_rate), TAX_RATE)]

\* the derived columns of one row, lines 151-159
Derive(row, set, sale_price, ex_rate) ==
  LET CPI_acq          == row.CPI_acq[1]
      CPI_MULTIPLIER   == RDiv(set, CPI_acq)
      gross_sale_euro  == RMul(row.Consumption, sale_price)
      cost_euro        == RMul(RMul(row.Consumption, row.Purchase_price), CPI_MULTIPLIER)
      real_gain_shekel == RMul(RSub(gross_sale_euro, cost_euro), ex_rate)
      tax_to_pay       == RMul(real_gain_shekel, TAX_RATE)
  IN  [acquisition_date |-> row.acquisition_date,
       Consumption      |-> row.Consumption,
       Purchase_price   |-> row.Purchase_price,
       CPI_acq          |-> row.CPI_acq,
       CPI_set          |-> set,
       CPI_MULTIPLIER   |-> CPI_MULTIPLIER,
       gross_sale_euro  |-> gross_sale_euro,
       cost_euro        |-> cost_euro,
       real_gain_shekel |-> real_gain_shekel,
       tax_to_pay       |-> tax_to_pay]

\* the fees added to the tax instead of deducted
TotalsAddFees(frame, fees_euro, ex_rate) ==
  LET fees_shekels          == RMul(fees_euro, ex_rate)
      total_tax_before_fees == RSum([k \in 1..Len(frame) |-> frame[k].tax_to_pay])
  IN  [Fees_shekels           |-> fees_shekels,
       Total_real_gain_shekel |-> RSum([k \in 1..Len(frame) |-> frame[k].real_gain_shekel]),
       Total_tax_before_fees  |-> total_tax_before_fees,
       Total_tax_to_pay       |-> RAdd(total_tax_before_fees, fees_shekels)]

\* the totals, lines 155 and 162-164
Totals(frame, fees_euro, ex_rate) ==
  LET fees_shekels          == RMul(fees_euro, ex_rate)
      total_real_gain       == RSum([k \in 1..Len(frame) |-> frame[k].real_gain_shekel])
      total_tax_before_fees == RSum([k \in 1..Len(frame) |-> frame[k].tax_to_pay])
      total_tax_to_pay      == RSub(total_tax_before_fees, fees_shekels)
  IN  [Fees_shekels           |-> fees_shekels,
       Total_real_gain_shekel |-> total_real_gain,
       Total_tax_before_fees  |-> total_tax_before_fees,
       Total_tax_to_pay       |-> total_tax_to_pay]

MathStage ==
  /\ UNCHANGED <<csv_file, sale_pdf>>
  /\ pc = "math"
  /\ stages' = stages
  /\ df' = [k \in 1..Len(df) |->
              Derive(df[k], cpi_set[1], sale[1].sale_price, sale[1].ex_rate)]
  /\ summary' = Some(Totals(df', sale[1].fees_euro, sale[1].ex_rate))
  /\ pc' = "write"
  /\ UNCHANGED <<i, status, out, requests, err, sale, cpi, cpi_set, text, xml>>

\* with pd.ExcelWriter(out) as writer: the two sheets; process_pair returns
WriteStage ==
  /\ UNCHANGED <<csv_file, sale_pdf>>
  /\ pc = "write"
  /\ stages' = Append(stages, "write")
  /\ out' = [out EXCEPT ![i] = Some([Data |-> df, Summary |-> summary[1]])]
  /\ status' = [status EXCEPT ![i] = "Wrote"]
  /\ i' = i + 1
  /\ pc' = "main"
  /\ sale' = None
  /\ df' = <<>>
  /\ cpi' = <<>>
  /\ cpi_set' = None
  /\ summary' = None
  /\ UNCHANGED <<requests, err, text, xml>>

Next ==
  \/ ProcessPair
  \/ MainReturn
  \/ ParseStage
  \/ LoadStage
  \/ FetchStage
  \/ MapStage
  \/ SettleStage
  \/ MathStage
  \/ WriteStage

Spec == Init /\ [][Next]_vars

\* ===================================================================
\* Properties
\* ===================================================================
Skipped == {"Skipping unrecognized file", "Warning: no sale pdf, skipping"}

\* equality of two fractions, by cross-multiplication
REq(a, b) == a[1] * b[2] = b[1] * a[2]

\* the sum of the first n entries of a column, as one fraction
RECURSIVE Sigma(_, _)
Sigma(column, n) ==
  IF n = 0 THEN <<0, 1>>
  ELSE LET r == Sigma(column, n - 1)
           x == column[n]
       IN  <<r[1] * x[2] + x[1] * r[2], r[2] * x[2]>>

RealGains(sheet) == [k \in 1..Len(sheet) |-> sheet[k].real_gain_shekel]
TaxesDue(sheet) == [k \in 1..Len(sheet) |-> sheet[k].tax_to_pay]

\* the series has a value for the month of dt
HasIndex(series, dt) ==
  \E k \in 1..Len(series) : series[k].date = Date(dt.y, dt.m, 1)

IndexOf(series, dt) ==
  series[CHOOSE k \in 1..Len(series) : series[k].date = Date(dt.y, dt.m, 1)].value

MissingRows == {k \in 1..Len(df) : ~HasIndex(cpi, df[k].acquisition_date)}

LookupsStarted == Len(stages) >= 4

Ended == pc \in {"exit", "raised"}

\* C1: an exception raised while one pair is processed does not keep the later
\* pairs from being attempted: when the run ends, process_pair has been called
\* on every discovered table.
C1_EveryTableAttempted ==
  Ended => \A t \in TableIds : status[t] # "pending"

\* C2: the report of a pair is written only when all four sale parameters were
\* parsed, the fetch succeeded and every acquisition month and the settlement
\* month have an index value; a pair that fails ends with an error and without
\* an output file.
C2_WriteStep ==
  /\ \A t \in TableIds :
       out'[t] # out[t] =>
         /\ t = i
         /\ out[t] = None
         /\ sale # None
         /\ DOMAIN sale[1] = {"sale_price", "settlement_date", "ex_rate", "fees_euro"}
         /\ Len(requests[t]) = 1
         /\ cpi # <<>>
         /\ df # <<>>
         /\ \A k \in 1..Len(df) : HasIndex(cpi, df[k].acquisition_date)
         /\ HasIndex(cpi, sale[1].settlement_date)
         /\ Len(out'[t]) = 1
         /\ Len(out'[t][1].Data) = Len(df)
         /\ status'[t] = "Wrote"
  /\ pc' = "raised" =>
       /\ out'[i] = None
       /\ status'[i] = "error"
       /\ err' # NoError

C2_NoPartialReport == [][C2_WriteStep]_vars

C2_Witness ==
  /\ pc = "raised"
  /\ err.line = 149
  /\ out[i] = None
  /\ \E t \in TableIds : out[t] # None

SummaryOfData(sheet, totals) ==
  /\ REq(totals.Total_real_gain_shekel, Sigma(RealGains(sheet), Len(sheet)))
  /\ REq(totals.Total_tax_before_fees, Sigma(TaxesDue(sheet), Len(sheet)))
  /\ totals.Total_tax_to_pay[1] * totals.Total_tax_before_fees[2] * totals.Fees_shekels[2]
       = (totals.Total_tax_before_fees[1] * totals.Fees_shekels[2]
            - totals.Fees_shekels[1] * totals.Total_tax_before_fees[2])
         * totals.Total_tax_to_pay[2]

C5_SummaryTotals ==
  /\ pc = "write" =>
       /\ SummaryOfData(df, summary[1])
       /\ summary[1].Fees_shekels[1] * sale[1].fees_euro[2] * sale[1].ex_rate[2]
            = sale[1].fees_euro[1] * sale[1].ex_rate[1] * summary[1].Fees_shekels[2]
  /\ \A t \in TableIds :
       out[t] # None =>
         /\ SummaryOfData(out[t][1].Data, out[t][1].Summary)
         /\ DOMAIN out[t][1].Summary = {"Fees_shekels", "Total_real_gain_shekel",
                                        "Total_tax_before_fees", "Total_tax_to_pay"}

C5_Witness ==
  \E t \in TableIds :
    /\ out[t] # None
    /\ Len(out[t][1].Data) = 1
    /\ out[t][1].Summary.Fees_shekels = <<8, 1>>
    /\ out[t][1].Summary.Total_tax_before_fees = <<0, 1>>
    /\ out[t][1].Summary.Total_tax_to_pay = <<-8, 1>>

\* C6: in every row of a report, cpi_multiplier = CPI_settlement / CPI_acquisition,
\* gross_sale_value = quantity x sale_price, inflation_adjusted_cost = quantity x
\* purchase_price x cpi_multiplier, real_gain = (gross_sale_value -
\* inflation_adjusted_cost) x exchange_rate and tax_due is a quarter of real_gain;
\* real_gain and tax_due are zero when gross_sale_value equals
\* inflation_adjusted_cost.
RowDerived(row) ==
  /\ row.CPI_MULTIPLIER[1] * row.CPI_acq[1][1] * row.CPI_set[2]
       = row.CPI_set[1] * row.CPI_acq[1][2] * row.CPI_MULTIPLIER[2]
  /\ row.cost_euro[1] * row.Consumption[2] * row.Purchase_price[2] * row.CPI_MULTIPLIER[2]
       = row.Consumption[1] * row.Purchase_price[1] * row.CPI_MULTIPLIER[1] * row.cost_euro[2]
  /\ 4 * row.tax_to_pay[1] * row.real_gain_shekel[2]
       = row.real_gain_shekel[1] * row.tax_to_pay[2]
  /\ REq(row.gross_sale_euro, row.cost_euro) =>
       (row.real_gain_shekel[1] = 0 /\ row.tax_to_pay[1] = 0)

RowOfSale(row, params) ==
  /\ row.gross_sale_euro[1] * row.Consumption[2] * params.sale_price[2]
       = row.Consumption[1] * params.sale_price[1] * row.gross_sale_euro[2]
  /\ row.real_gain_shekel[1] * row.gross_sale_euro[2] * row.cost_euro[2] * params.ex_rate[2]
       = (row.gross_sale_euro[1] * row.cost_euro[2]
            - row.cost_euro[1] * row.gross_sale_euro[2])
         * params.ex_rate[1] * row.real_gain_shekel[2]

C6_RowFormulas ==
  /\ pc = "write" =>
       \A k \in 1..Len(df) :
         /\ RowDerived(df[k])
         /\ RowOfSale(df[k], sale[1])
         /\ REq(df[k].CPI_acq[1], IndexOf(cpi, df[k].acquisition_date))
         /\ REq(df[k].CPI_set, IndexOf(cpi, sale[1].settlement_date))
  /\ \A t \in TableIds :
       out[t] # None =>
         \A k \in 1..Len(out[t][1].Data) : RowDerived(out[t][1].Data[k])

C6_Witness ==
  \E t \in TableIds :
    /\ out[t] # None
    /\ \E k \in 1..Len(out[t][1].Data) :
         LET row == out[t][1].Data[k]
         IN  /\ row.Consumption = <<10, 1>>
             /\ row.Purchase_price = <<5, 1>>
             /\ row.CPI_acq = <<<<100, 1>>>>
             /\ row.CPI_set = <<120, 1>>
             /\ row.CPI_MULTIPLIER = <<6, 5>>
             /\ row.gross_sale_euro = <<60, 1>>
             /\ row.cost_euro = <<60, 1>>
             /\ row.real_gain_shekel = <<0, 1>>
             /\ row.tax_to_pay = <<0, 1>>

\* C7: parse_sale_pdf either returns all four values or fails with an error that
\* identifies the fields that could not be found; it never returns a result with
\* a field missing.
C7_AllFourOrNamedFields ==
  /\ sale # None =>
       DOMAIN sale[1] = {"sale_price", "settlement_date", "ex_rate", "fees_euro"}
  /\ (pc = "raised" /\ text # None) =>
       /\ err.type = "RuntimeError"
       /\ (err.sale_price = None) = (text[1].price = <<>>)
       /\ (err.settle = None) = (text[1].settle = <<>>)
       /\ (err.FX = None) = (text[1].fx = <<>> /\ text[1].fxAny = <<>>)
       /\ (err.fees = None) = (text[1].fees = <<>> /\ text[1].feesAny = <<>>)

\* C8: a table whose name does not match the convention, or whose sale document
\* does not exist, is skipped with a warning: process_pair returns without
\* parsing, fetching or writing anything, nothing is raised, and main moves to
\* the next table.
C8_SkipStep ==
  (/\ pc = "main"
   /\ i \in TableIds
   /\ status'[i] # status[i]
   /\ (~DateKey(csv_file') \/ ~sale_pdf')) =>
     /\ status'[i] = IF ~DateKey(csv_file') THEN "Skipping unrecognized file"
                     ELSE "Warning: no sale pdf, skipping"
     /\ pc' = "main"
     /\ i' = i + 1
     /\ err' = NoError
     /\ stages' = <<>>
     /\ UNCHANGED <<out, requests, locals>>

C8_SkipIsNotFatal == [][C8_SkipStep]_vars

C8_Witness ==
  /\ MaxTables >= 2
  /\ status[1] \in Skipped
  /\ status[2] = "Wrote"
  /\ out[1] = None
  /\ requests[1] = <<>>

\* C9: fetch_cpi_series passes over every malformed observation node instead of
\* aborting: the fetch fails only when no well-formed observation was found,
\* with the no-observations error.
C9_MalformedObsSkipped ==
  (pc = "raised" /\ xml # None) =>
     /\ err.type = "RuntimeError"
     /\ err.line = 94
     /\ xml[1].dates = <<>>
     /\ xml[1].values = <<>>

\* The stages run in the order parse, load, fetch, lookups, write, each only
\* after the one before succeeded; no request is issued for a pair that was
\* skipped or whose document or table failed, never more than one per pair, and
\* a request is for the window from the earliest acquisition date to the
\* settlement date.
StageOrder == <<"parse", "load", "fetch", "lookup", "write">>

IsPrefix(s, t) == Len(s) <= Len(t) /\ \A k \in 1..Len(s) : s[k] = t[k]

Window(req) ==
  /\ req.endPeriod = <<sale[1].settlement_date.m, sale[1].settlement_date.y>>
  /\ \E k \in 1..Len(df) :
       /\ req.startPeriod = <<df[k].acquisition_date.m, df[k].acquisition_date.y>>
       /\ \A j \in 1..Len(df) :
            ~DateLess(df[j].acquisition_date, df[k].acquisition_date)

StagesAndRequests ==
  /\ IsPrefix(stages, StageOrder)
  /\ \A t \in TableIds :
       /\ Len(requests[t]) <= 1
       /\ status[t] \in Skipped \cup {"pending"} => requests[t] = <<>>
       /\ status[t] = "Wrote" => Len(requests[t]) = 1
  /\ pc \in {"parse", "load", "fetch"} => requests[i] = <<>>
  /\ pc = "load" => (sale # None /\ stages = <<"parse">>)
  /\ pc = "fetch" => (sale # None /\ stages = <<"parse", "load">>)
  /\ (pc = "raised" /\ Len(stages) <= 2) => requests[i] = <<>>
  /\ (pc = "raised" /\ sale = None) => (requests[i] = <<>> /\ stages = <<"parse">>)
  /\ pc \in {"map", "settle", "math", "write"} =>
       (Len(requests[i]) = 1 /\ Window(requests[i][1]))
  /\ (pc = "raised" /\ LookupsStarted) =>
       (Len(requests[i]) = 1 /\ Window(requests[i][1]))
  /\ (pc = "raised" /\ requests[i] # <<>>) =>
       (sale # None /\ df # <<>> /\ Window(requests[i][1]))

FetchStarted == Len(stages) >= 3

====
